---- MODULE Spec2Model ----
(***************************************************************************)
(* State-machine model of the MCP client / host lifecycle layer            *)
(* (agent/client.py, agent/host.py, agent/test_system.py).                 *)
(*                                                                         *)
(* Every coroutine is cut at its await expressions: one action runs a task *)
(* from one suspension point to the next (asyncio is cooperative, so the   *)
(* code between two awaits is atomic).  The result of every await is an    *)
(* input: it completes ("ok"), raises an ordinary Exception ("error") or   *)
(* raises asyncio.CancelledError ("cancel").                               *)
(***************************************************************************)
EXTENDS Integers, Sequences, FiniteSets, TLC

VARIABLES
    ops,             \* number of host calls made so far
    client,          \* sequence of MCPClient objects (index = object identity)
    ctx,             \* sequence of context-manager objects created by connect()
    list_tools_calls,\* per client: number of session.list_tools() requests sent
    task,            \* per task: position inside the client method it executes
    mcp_clients,     \* ResearchHost.mcp_clients, an insertion-ordered dict
    host             \* per task: position inside the host method it executes

vars == <<client, ctx, list_tools_calls, task, mcp_clients, host, ops>>

----------------------------------------------------------------------------
(* Bounds of the model *)

\* connect() attempts that reach the subprocess spawn, over all clients
MaxConnects == 2

\* list_tools requests sent per client
MaxFetch == 2

\* run_experiment() and cleanup() calls made on the host
MaxOps == 3

Tasks == {"t1", "t2"}

Scripts == {"s1", "s2"}

\* the server_script lists a request may name
ScriptLists == {<<"s1">>, <<"s2">>, <<"s1", "s2">>, <<"s2", "s1">>}

None == 0

NoCache == {}

Some(x) == {x}

TheCache(o) == CHOOSE x \in o : TRUE

\* result of an await: completes, raises Exception, raises CancelledError
Outcomes == {"ok", "error", "cancel"}

AwaitPcs ==
    {"spawn", "session_open", "initialize", "session_exit", "stdio_exit",
     "list_tools", "call_tool"}

----------------------------------------------------------------------------
(* MCPClient *)

\* MCPClient.__init__
NewClient(script) ==
    [server_script |-> script, session |-> None, stdio_context |-> None,
     session_context |-> None, tools_cache |-> NoCache, initialized |-> FALSE]

\* a context manager object on which __aenter__ has just been called
NewCtx(kind, c) ==
    [kind |-> kind, owner |-> c, st |-> "entering", exits |-> 0]

Spawns == Cardinality({x \in 1..Len(ctx) : ctx[x].kind = "stdio"})

\* the frame of a client method that task t starts on client c
Call(t, o, c) ==
    [pc |-> "idle", op |-> o, cl |-> c, res |-> "none", aw |-> None, rel |-> <<>>]

NoFrame == [pc |-> "idle", op |-> "none", cl |-> None, res |-> "none",
            aw |-> None, rel |-> <<>>]

\* the method returns or raises; aw keeps what it last awaited (None: nothing)
Return(fr, r) == [fr EXCEPT !.pc = "ret", !.res = r]

Await(fr, p, x) == [fr EXCEPT !.pc = p, !.aw = x]

\* an exception no handler of the method catches reaches the caller as it is
Propagated(o) == IF o = "cancel" THEN "cancelled" ELSE "error"

\* a task runs only while every other task is suspended at an await or idle
Parked(u) ==
    \/ task[u].pc \in AwaitPcs
    \/ task[u].pc = "idle" /\ host[u].hpc \in {"direct", "idle", "off"}

CanRun(t) == \A u \in Tasks \ {t} : Parked(u)

\* connect(): "if self._session is not None: return"
AlreadyConnectedMut(cl) == FALSE

AlreadyConnected(cl) == cl.session # None

\* connect(): "except Exception" (CancelledError is a BaseException)
ConnectCatchesMut(o) == FALSE

ConnectCatches(o) == o = "error"

\* _cleanup(): "except (asyncio.CancelledError, GeneratorExit, RuntimeError, Exception)"
CleanupCatchesMut(o) == o = "error"

CleanupCatches(o) == o \in {"error", "cancel"}

\* get_tools()/call_tool(): "if not self._initialized or self._session is None"
NotReadyMut(cl) == cl.session = None

NotReady(cl) == ~cl.initialized \/ cl.session = None

\* get_tools(): "if self._tools_cache is None"
CacheMissMut(cl) == TRUE

CacheMiss(cl) == cl.tools_cache = NoCache

\* a teardown that keeps the catalog cache
CleanupTailKeepsCache(t, fr, cli, cx) ==
    /\ client' = [cli EXCEPT ![fr.cl].initialized = FALSE]
    /\ ctx' = cx
    /\ task' = [task EXCEPT ![t] =
                  Return(fr, IF fr.op = "connect" THEN "error" ELSE "ok")]

\* a teardown that leaves the initialized flag as it is
CleanupTailMut(t, fr, cli, cx) ==
    /\ client' = [cli EXCEPT ![fr.cl].tools_cache = NoCache]
    /\ ctx' = cx
    /\ task' = [task EXCEPT ![t] =
                  Return(fr, IF fr.op = "connect" THEN "error" ELSE "ok")]

\* _cleanup(), last two statements, and the return into the caller:
\* connect() then raises its wrapped error, disconnect() returns
CleanupTail(t, fr, cli, cx) ==
    /\ client' = [cli EXCEPT ![fr.cl].initialized = FALSE,
                             ![fr.cl].tools_cache = NoCache]
    /\ ctx' = cx
    /\ task' = [task EXCEPT ![t] =
                  Return(fr, IF fr.op = "connect" THEN "error" ELSE "ok")]

\* _cleanup() from "if self._stdio_context is not None" to its await
CleanupStdio(t, fr, cli, cx) ==
    LET c == fr.cl
        s == cli[c].stdio_context
    IN  IF s # None
        THEN /\ client' = [cli EXCEPT ![c].stdio_context = None]
             /\ ctx' = [cx EXCEPT ![s].exits = @ + 1]
             /\ task' = [task EXCEPT ![t] =
                           Await([fr EXCEPT !.rel = Append(@, [ctx |-> s, o |-> "pending"])],
                                 "stdio_exit", s)]
        ELSE CleanupTail(t, fr, cli, cx)

\* a teardown that goes to the transport without releasing the session
CleanupMut(t, fr, cli, cx) ==
    LET c == fr.cl
        s == cli[c].stdio_context
    IN  IF s # None
        THEN /\ client' = [cli EXCEPT ![c].stdio_context = None]
             /\ ctx' = [cx EXCEPT ![s].exits = @ + 1]
             /\ task' = [task EXCEPT ![t] =
                           Await([fr EXCEPT !.rel = Append(@, [ctx |-> s, o |-> "pending"])],
                                 "stdio_exit", s)]
        ELSE CleanupTail(t, fr, cli, cx)

\* _cleanup() from its first statement to its first await
Cleanup(t, fr, cli, cx) ==
    LET c == fr.cl
        s == cli[c].session_context
    IN  IF s # None
        THEN /\ client' = [cli EXCEPT ![c].session_context = None,
                                      ![c].session = None]
             /\ ctx' = [cx EXCEPT ![s].exits = @ + 1]
             /\ task' = [task EXCEPT ![t] =
                           Await([fr EXCEPT !.rel = Append(@, [ctx |-> s, o |-> "pending"])],
                                 "session_exit", s)]
        ELSE CleanupStdio(t, fr, cli, cx)

\* connect() from the call to "await self._stdio_context.__aenter__()"
Connect(t, fr, cli) ==
    IF AlreadyConnected(cli[fr.cl])
    THEN /\ client' = cli
         /\ ctx' = ctx
         /\ task' = [task EXCEPT ![t] = Return(fr, "ok")]
    ELSE /\ Spawns < MaxConnects
         /\ client' = [cli EXCEPT ![fr.cl].stdio_context = Len(ctx) + 1]
         /\ ctx' = Append(ctx, NewCtx("stdio", fr.cl))
         /\ task' = [task EXCEPT ![t] = Await(fr, "spawn", Len(ctx) + 1)]

\* a disconnect() that refuses a client that is not connected
DisconnectMut(t, fr, cli) ==
    IF NotReady(cli[fr.cl])
    THEN /\ client' = cli
         /\ ctx' = ctx
         /\ task' = [task EXCEPT ![t] = Return(fr, "notconnected")]
    ELSE Cleanup(t, fr, cli, ctx)

\* disconnect()
Disconnect(t, fr, cli) == Cleanup(t, fr, cli, ctx)

\* get_tools() from the call to "await self._session.list_tools()"
GetTools(t, fr, cli) ==
    LET c == fr.cl IN
    /\ client' = cli
    /\ ctx' = ctx
    /\ IF NotReady(cli[c])
       THEN /\ task' = [task EXCEPT ![t] = Return(fr, "notconnected")]
            /\ UNCHANGED list_tools_calls
       ELSE IF CacheMiss(cli[c])
       THEN /\ list_tools_calls[c] < MaxFetch
            /\ list_tools_calls' = [list_tools_calls EXCEPT ![c] = @ + 1]
            /\ task' = [task EXCEPT ![t] = Await(fr, "list_tools", cli[c].session)]
       ELSE /\ task' = [task EXCEPT ![t] = Return(fr, "ok")]
            /\ UNCHANGED list_tools_calls

\* call_tool() from the call to "await self._session.call_tool(...)"
CallTool(t, fr, cli) ==
    LET c == fr.cl IN
    /\ client' = cli
    /\ ctx' = ctx
    /\ IF NotReady(cli[c])
       THEN task' = [task EXCEPT ![t] = Return(fr, "notconnected")]
       ELSE task' = [task EXCEPT ![t] = Await(fr, "call_tool", cli[c].session)]

----------------------------------------------------------------------------
(* The remote servers and the conversion of their catalogs *)

EmptyMap == "{}"

\* what a server answers to list_tools: tools with name, description, inputSchema.
\* inputSchema kinds: "model" has model_dump(), "dict" is a plain dict, "other" is
\* any other truthy object, "falsy" is None or empty.  description "None" is None
Catalog(script) ==
    IF script = "s1"
    THEN << [name |-> "simple_query", description |-> "d1",
             inputSchema |-> [kind |-> "model", map |-> "m1"]],
            [name |-> "get_status", description |-> "None",
             inputSchema |-> [kind |-> "dict", map |-> "m2"]] >>
    ELSE << [name |-> "get_status", description |-> "d2",
             inputSchema |-> [kind |-> "other", map |-> "m3"]],
            [name |-> "tool_xy87", description |-> "d2",
             inputSchema |-> [kind |-> "falsy", map |-> EmptyMap]] >>

\* an answer whose second element is not a well-formed tool: reading its
\* description attribute raises
BrokenCatalog ==
    << [name |-> "simple_query", description |-> "d1",
        inputSchema |-> [kind |-> "dict", map |-> "m1"]],
       [name |-> "bad", description |-> "raises",
        inputSchema |-> [kind |-> "dict", map |-> "m2"]] >>

ListToolsResults(script) ==
    IF script = "s1" THEN {Catalog(script), <<>>, BrokenCatalog}
    ELSE {Catalog(script)}

\* a normalization that takes the mapping of whatever object it is given
NormalizeMut(schema) ==
    IF schema.kind = "falsy" THEN EmptyMap ELSE schema.map

\* get_tools(): the if/elif/else on tool.inputSchema
Normalize(schema) ==
    IF schema.kind = "falsy" THEN EmptyMap
    ELSE IF schema.kind = "model" THEN schema.map
    ELSE IF schema.kind = "dict" THEN schema.map
    ELSE EmptyMap

\* get_tools(): tool_dict; server is the '_server' key the host adds later
ToolDict(tool) ==
    [name |-> tool.name,
     description |-> IF tool.description = "None" THEN "" ELSE tool.description,
     inputSchema |-> Normalize(tool.inputSchema),
     server |-> "absent"]

RECURSIVE ConvertFrom(_, _, _)
\* get_tools(): the for loop appending to self._tools_cache; it stops where a
\* conversion raises, with the tools converted so far already in the cache
ConvertFrom(raw, i, acc) ==
    IF i > Len(raw) THEN [tools |-> acc, failed |-> FALSE]
    ELSE IF raw[i].description = "raises" THEN [tools |-> acc, failed |-> TRUE]
    ELSE ConvertFrom(raw, i + 1, Append(acc, ToolDict(raw[i])))

ConvertTools(raw) == ConvertFrom(raw, 1, <<>>)

----------------------------------------------------------------------------
(* MCPClient: what happens when an await completes *)

HostVars == <<mcp_clients, host, ops>>

\* connect(): "read, write = await self._stdio_context.__aenter__()" completes
SpawnDone(t) ==
    /\ task[t].pc = "spawn"
    /\ CanRun(t)
    /\ \E o \in Outcomes :
         LET fr == task[t]
             c == fr.cl
             s == fr.aw
             n == Len(ctx) + 1
         IN  IF o = "ok"
             THEN /\ ctx' = Append([ctx EXCEPT ![s].st = "open"], NewCtx("session", c))
                  /\ client' = [client EXCEPT ![c].session_context = n]
                  /\ task' = [task EXCEPT ![t] = Await(fr, "session_open", n)]
             ELSE IF ConnectCatches(o)
             THEN Cleanup(t, fr, client, [ctx EXCEPT ![s].st = "failed"])
             ELSE /\ ctx' = [ctx EXCEPT ![s].st = "failed"]
                  /\ client' = client
                  /\ task' = [task EXCEPT ![t] = Return(fr, Propagated(o))]
    /\ UNCHANGED <<list_tools_calls, HostVars>>

\* connect(): "self._session = await self._session_context.__aenter__()" completes
SessionOpenDone(t) ==
    /\ task[t].pc = "session_open"
    /\ CanRun(t)
    /\ \E o \in Outcomes :
         LET fr == task[t]
             c == fr.cl
             s == fr.aw
         IN  IF o = "ok"
             THEN /\ ctx' = [ctx EXCEPT ![s].st = "open"]
                  /\ client' = [client EXCEPT ![c].session = s]
                  /\ task' = [task EXCEPT ![t] = Await(fr, "initialize", s)]
             ELSE IF ConnectCatches(o)
             THEN Cleanup(t, fr, client, [ctx EXCEPT ![s].st = "failed"])
             ELSE /\ ctx' = [ctx EXCEPT ![s].st = "failed"]
                  /\ client' = client
                  /\ task' = [task EXCEPT ![t] = Return(fr, Propagated(o))]
    /\ UNCHANGED <<list_tools_calls, HostVars>>

\* connect(): "await self._session.initialize()" completes
InitializeDone(t) ==
    /\ task[t].pc = "initialize"
    /\ CanRun(t)
    /\ \E o \in Outcomes :
         LET fr == task[t]
             c == fr.cl
         IN  IF o = "ok"
             THEN /\ ctx' = ctx
                  /\ client' = [client EXCEPT ![c].initialized = TRUE]
                  /\ task' = [task EXCEPT ![t] = Return(fr, "ok")]
             ELSE IF ConnectCatches(o)
             THEN Cleanup(t, fr, client, ctx)
             ELSE /\ ctx' = ctx
                  /\ client' = client
                  /\ task' = [task EXCEPT ![t] = Return(fr, Propagated(o))]
    /\ UNCHANGED <<list_tools_calls, HostVars>>

\* _cleanup(): "await session_context.__aexit__(None, None, None)" completes
SessionExitDone(t) ==
    /\ task[t].pc = "session_exit"
    /\ CanRun(t)
    /\ \E o \in Outcomes :
         LET fr == [task[t] EXCEPT !.rel[Len(task[t].rel)].o = o]
         IN  IF o = "ok" \/ CleanupCatches(o)
             THEN CleanupStdio(t, fr, client, ctx)
             ELSE /\ ctx' = ctx
                  /\ client' = client
                  /\ task' = [task EXCEPT ![t] = Return(fr, Propagated(o))]
    /\ UNCHANGED <<list_tools_calls, HostVars>>

\* _cleanup(): "await stdio_context.__aexit__(None, None, None)" completes
StdioExitDone(t) ==
    /\ task[t].pc = "stdio_exit"
    /\ CanRun(t)
    /\ \E o \in Outcomes :
         LET fr == [task[t] EXCEPT !.rel[Len(task[t].rel)].o = o]
         IN  IF o = "ok" \/ CleanupCatches(o)
             THEN CleanupTail(t, fr, client, ctx)
             ELSE /\ ctx' = ctx
                  /\ client' = client
                  /\ task' = [task EXCEPT ![t] = Return(fr, Propagated(o))]
    /\ UNCHANGED <<list_tools_calls, HostVars>>

\* get_tools(): "result = await self._session.list_tools()" completes, then the
\* conversion loop; "except Exception" wraps an error, a CancelledError passes
ListToolsDone(t) ==
    /\ task[t].pc = "list_tools"
    /\ CanRun(t)
    /\ \E o \in Outcomes :
         LET fr == task[t]
             c == fr.cl
         IN  IF o = "ok"
             THEN \E raw \in ListToolsResults(client[c].server_script) :
                    LET conv == ConvertTools(raw) IN
                    /\ client' = [client EXCEPT ![c].tools_cache = Some(conv.tools)]
                    /\ task' = [task EXCEPT ![t] =
                                  Return(fr, IF conv.failed THEN "error" ELSE "ok")]
             ELSE /\ client' = client
                  /\ task' = [task EXCEPT ![t] = Return(fr, Propagated(o))]
    /\ UNCHANGED <<ctx, list_tools_calls, HostVars>>

\* a call_tool() that marks the client not initialized when the request fails
CallToolDoneMut(t) ==
    /\ task[t].pc = "call_tool"
    /\ CanRun(t)
    /\ \E o \in Outcomes :
         /\ task' = [task EXCEPT ![t] =
                       Return(task[t], IF o = "ok" THEN "ok" ELSE Propagated(o))]
         /\ client' = IF o = "ok" THEN client
                      ELSE [client EXCEPT ![task[t].cl].initialized = FALSE]
    /\ UNCHANGED <<ctx, list_tools_calls, HostVars>>

\* call_tool(): "result = await self._session.call_tool(...)" completes
CallToolDone(t) ==
    /\ task[t].pc = "call_tool"
    /\ CanRun(t)
    /\ \E o \in Outcomes :
         task' = [task EXCEPT ![t] =
                    Return(task[t], IF o = "ok" THEN "ok" ELSE Propagated(o))]
    /\ UNCHANGED <<client, ctx, list_tools_calls, HostVars>>

ClientStep(t) ==
    \/ SpawnDone(t)
    \/ SessionOpenDone(t)
    \/ InitializeDone(t)
    \/ SessionExitDone(t)
    \/ StdioExitDone(t)
    \/ ListToolsDone(t)
    \/ CallToolDone(t)

----------------------------------------------------------------------------
(* A caller that owns one client and calls its methods one after the other, *)
(* as test_client() does                                                    *)

AtCallSite(t) == host[t].hpc = "direct" /\ task[t].pc = "idle" /\ CanRun(t)

DriverConnect(t) ==
    /\ AtCallSite(t)
    /\ \E c \in 1..Len(client) : Connect(t, Call(t, "connect", c), client)
    /\ UNCHANGED <<list_tools_calls, HostVars>>

DriverGetTools(t) ==
    /\ AtCallSite(t)
    /\ \E c \in 1..Len(client) : GetTools(t, Call(t, "get_tools", c), client)
    /\ UNCHANGED HostVars

DriverCallTool(t) ==
    /\ AtCallSite(t)
    /\ \E c \in 1..Len(client) : CallTool(t, Call(t, "call_tool", c), client)
    /\ UNCHANGED <<list_tools_calls, HostVars>>

DriverDisconnect(t) ==
    /\ AtCallSite(t)
    /\ \E c \in 1..Len(client) : Disconnect(t, Call(t, "disconnect", c), client)
    /\ UNCHANGED <<list_tools_calls, HostVars>>

\* the awaited method has returned or raised into the caller
DriverReturn(t) ==
    /\ host[t].hpc = "direct"
    /\ task[t].pc = "ret"
    /\ task' = [task EXCEPT ![t] = NoFrame]
    /\ UNCHANGED <<client, ctx, list_tools_calls, HostVars>>

\* log records, for each disconnect() of a cleanup(), the releases it attempted
NoHostFrame ==
    [hpc |-> "idle", hop |-> "none", server_scripts |-> <<>>, i |-> 0,
     all_tools |-> <<>>, items |-> <<>>, res |-> "none", result |-> <<>>,
     log |-> <<>>]

Init ==
    /\ client = <<NewClient("s1")>>
    /\ ctx = <<>>
    /\ list_tools_calls = <<0>>
    /\ task = [t \in Tasks |-> NoFrame]
    /\ mcp_clients = <<>>
    /\ ops = 0
    /\ host = [t \in Tasks |->
                 [NoHostFrame EXCEPT !.hpc = IF t = "t1" THEN "direct" ELSE "off"]]

Next ==
    \E t \in Tasks :
       \/ DriverConnect(t)
       \/ DriverGetTools(t)
       \/ DriverCallTool(t)
       \/ DriverDisconnect(t)
       \/ DriverReturn(t)
       \/ ClientStep(t)

\* one MCPClient used by one caller, every await free to fail or be cancelled
Spec == Init /\ [][Next]_vars

----------------------------------------------------------------------------
(* ResearchHost *)

\* "script in self.mcp_clients"
InRegistry(reg, script) == \E k \in 1..Len(reg) : reg[k].script = script

\* "self.mcp_clients[script]"
Lookup(reg, script) ==
    reg[CHOOSE k \in 1..Len(reg) : reg[k].script = script].client

\* "self.mcp_clients[script] = client": a dict keeps the place of a present key
Register(reg, script, c) ==
    IF InRegistry(reg, script)
    THEN [k \in 1..Len(reg) |->
            IF reg[k].script = script THEN [script |-> script, client |-> c]
            ELSE reg[k]]
    ELSE Append(reg, [script |-> script, client |-> c])

\* what the model answers: the names of the tools it calls, in order
LLMChoices == {<<>>, <<"get_status">>, <<"tool_xy87", "no_such_tool">>}

\* a resolution in which the last tool of that name wins
ResolveMut(mcp_tools, tool_name) ==
    LET hits == {k \in 1..Len(mcp_tools) : mcp_tools[k].name = tool_name}
    IN  IF hits = {} THEN "None"
        ELSE mcp_tools[CHOOSE k \in hits : \A j \in hits : k >= j].server

\* run_experiment(): "for tool in mcp_tools: if tool.get('name') == tool_name"
Resolve(mcp_tools, tool_name) ==
    LET hits == {k \in 1..Len(mcp_tools) : mcp_tools[k].name = tool_name}
    IN  IF hits = {} THEN "None"
        ELSE mcp_tools[CHOOSE k \in hits : \A j \in hits : k <= j].server

\* an exception leaves _get_tools_from_clients and run_experiment uncaught
HostRaise(t, r) ==
    host' = [host EXCEPT ![t].hpc = "raised", ![t].res = r]

\* run_experiment() from the call into _ensure_clients_connected
RunExperiment(t) ==
    /\ host[t].hpc = "idle"
    /\ task[t].pc = "idle"
    /\ CanRun(t)
    /\ ops < MaxOps
    /\ ops' = ops + 1
    /\ \E ss \in ScriptLists :
         host' = [host EXCEPT ![t] =
                    [NoHostFrame EXCEPT !.hpc = "ensure", !.hop = "run_experiment",
                                        !.server_scripts = ss, !.i = 1]]
    /\ UNCHANGED <<client, ctx, list_tools_calls, task, mcp_clients>>

\* _ensure_clients_connected(): one turn of the for loop, up to the await
EnsureNext(t) ==
    /\ host[t].hpc = "ensure"
    /\ task[t].pc = "idle"
    /\ CanRun(t)
    /\ LET h == host[t]
           n == Len(client) + 1
       IN  IF h.i > Len(h.server_scripts)
           THEN /\ host' = [host EXCEPT ![t].hpc = "tools", ![t].i = 1]
                /\ UNCHANGED <<client, ctx, list_tools_calls, task>>
           ELSE IF InRegistry(mcp_clients, h.server_scripts[h.i])
           THEN /\ host' = [host EXCEPT ![t].i = h.i + 1]
                /\ UNCHANGED <<client, ctx, list_tools_calls, task>>
           ELSE /\ Connect(t, Call(t, "connect", n),
                           Append(client, NewClient(h.server_scripts[h.i])))
                /\ list_tools_calls' = Append(list_tools_calls, 0)
                /\ host' = [host EXCEPT ![t].hpc = "ensure_wait"]
    /\ UNCHANGED <<mcp_clients, ops>>

\* _ensure_clients_connected(): "await client.connect()" returns or raises
EnsureReturn(t) ==
    /\ host[t].hpc = "ensure_wait"
    /\ task[t].pc = "ret"
    /\ LET h == host[t] IN
       IF task[t].res = "ok"
       THEN /\ mcp_clients' = Register(mcp_clients, h.server_scripts[h.i], task[t].cl)
            /\ host' = [host EXCEPT ![t].hpc = "ensure", ![t].i = h.i + 1]
       ELSE /\ HostRaise(t, task[t].res)
            /\ UNCHANGED mcp_clients
    /\ task' = [task EXCEPT ![t] = NoFrame]
    /\ UNCHANGED <<client, ctx, list_tools_calls, ops>>

\* _get_tools_from_clients(): one turn of the second for loop, up to the await;
\* after the loop run_experiment() asks the model (a blocking call, no await),
\* resolves each tool call to its server and returns the record
ToolsNext(t) ==
    /\ host[t].hpc = "tools"
    /\ task[t].pc = "idle"
    /\ CanRun(t)
    /\ LET h == host[t] IN
       IF h.i > Len(h.server_scripts)
       THEN /\ \/ \E calls \in LLMChoices :
                    host' = [host EXCEPT
                      ![t].hpc = "returned", ![t].res = "ok",
                      ![t].result =
                         [k \in 1..Len(calls) |->
                            [tool_name |-> calls[k],
                             server |-> Resolve(h.all_tools, calls[k])]]]
               \/ HostRaise(t, "error")
            /\ UNCHANGED <<client, ctx, list_tools_calls, task>>
       ELSE IF InRegistry(mcp_clients, h.server_scripts[h.i])
       THEN /\ GetTools(t, Call(t, "get_tools",
                                Lookup(mcp_clients, h.server_scripts[h.i])), client)
            /\ host' = [host EXCEPT ![t].hpc = "tools_wait"]
       ELSE /\ host' = [host EXCEPT ![t].i = h.i + 1]
            /\ UNCHANGED <<client, ctx, list_tools_calls, task>>
    /\ UNCHANGED <<mcp_clients, ops>>

\* a merge that tags every tool with the first endpoint of the request
ToolsReturnMut(t) ==
    /\ host[t].hpc = "tools_wait"
    /\ task[t].pc = "ret"
    /\ LET h == host[t]
           c == task[t].cl
       IN  IF task[t].res = "ok"
           THEN LET tools == TheCache(client[c].tools_cache)
                    tagged == [k \in 1..Len(tools) |->
                                 [tools[k] EXCEPT !.server = h.server_scripts[1]]]
                IN  /\ client' = [client EXCEPT ![c].tools_cache = Some(tagged)]
                    /\ host' = [host EXCEPT ![t].hpc = "tools", ![t].i = h.i + 1,
                                            ![t].all_tools = h.all_tools \o tagged]
           ELSE /\ HostRaise(t, task[t].res)
                /\ UNCHANGED client
    /\ task' = [task EXCEPT ![t] = NoFrame]
    /\ UNCHANGED <<ctx, list_tools_calls, mcp_clients, ops>>

\* _get_tools_from_clients(): "tools = await client.get_tools()" returns or
\* raises; the returned list is the client's cache itself, so tagging its dicts
\* with '_server' writes into the cache
ToolsReturn(t) ==
    /\ host[t].hpc = "tools_wait"
    /\ task[t].pc = "ret"
    /\ LET h == host[t]
           c == task[t].cl
       IN  IF task[t].res = "ok"
           THEN LET tools == TheCache(client[c].tools_cache)
                    tagged == [k \in 1..Len(tools) |->
                                 [tools[k] EXCEPT !.server = h.server_scripts[h.i]]]
                IN  /\ client' = [client EXCEPT ![c].tools_cache = Some(tagged)]
                    /\ host' = [host EXCEPT ![t].hpc = "tools", ![t].i = h.i + 1,
                                            ![t].all_tools = h.all_tools \o tagged]
           ELSE /\ HostRaise(t, task[t].res)
                /\ UNCHANGED client
    /\ task' = [task EXCEPT ![t] = NoFrame]
    /\ UNCHANGED <<ctx, list_tools_calls, mcp_clients, ops>>

\* cleanup(): "list(self.mcp_clients.items())"
HostCleanup(t) ==
    /\ host[t].hpc = "idle"
    /\ task[t].pc = "idle"
    /\ CanRun(t)
    /\ ops < MaxOps
    /\ ops' = ops + 1
    /\ host' = [host EXCEPT ![t] =
                  [NoHostFrame EXCEPT !.hpc = "cleanup", !.hop = "cleanup",
                                      !.items = mcp_clients, !.i = 1]]
    /\ UNCHANGED <<client, ctx, list_tools_calls, task, mcp_clients>>

\* cleanup(): one turn of the for loop up to the await, then "self.mcp_clients.clear()"
CleanupNext(t) ==
    /\ host[t].hpc = "cleanup"
    /\ task[t].pc = "idle"
    /\ CanRun(t)
    /\ LET h == host[t] IN
       IF h.i > Len(h.items)
       THEN /\ mcp_clients' = <<>>
            /\ host' = [host EXCEPT ![t].hpc = "returned", ![t].res = "ok"]
            /\ UNCHANGED <<client, ctx, task>>
       ELSE /\ Disconnect(t, Call(t, "disconnect", h.items[h.i].client), client)
            /\ host' = [host EXCEPT ![t].hpc = "cleanup_wait"]
            /\ UNCHANGED mcp_clients
    /\ UNCHANGED <<list_tools_calls, ops>>

\* a cleanup() that stops at the first client
CleanupReturnMut(t) ==
    /\ host[t].hpc = "cleanup_wait"
    /\ task[t].pc = "ret"
    /\ host' = [host EXCEPT ![t].hpc = "cleanup", ![t].i = Len(host[t].items) + 1]
    /\ task' = [task EXCEPT ![t] = NoFrame]
    /\ UNCHANGED <<client, ctx, list_tools_calls, mcp_clients, ops>>

\* cleanup(): "await client.disconnect()" returns, or raises into "except Exception: pass"
CleanupReturn(t) ==
    /\ host[t].hpc = "cleanup_wait"
    /\ task[t].pc = "ret"
    /\ IF task[t].res \in {"ok", "error", "notconnected"}
       THEN host' = [host EXCEPT ![t].hpc = "cleanup", ![t].i = host[t].i + 1,
                                 ![t].log = Append(@, task[t].rel)]
       ELSE HostRaise(t, task[t].res)
    /\ task' = [task EXCEPT ![t] = NoFrame]
    /\ UNCHANGED <<client, ctx, list_tools_calls, mcp_clients, ops>>

\* run_experiment() or cleanup() has returned or raised into its caller
HostReturn(t) ==
    /\ host[t].hpc \in {"returned", "raised"}
    /\ host' = [host EXCEPT ![t] = NoHostFrame]
    /\ UNCHANGED <<client, ctx, list_tools_calls, task, mcp_clients, ops>>

InitHost ==
    /\ client = <<>>
    /\ ctx = <<>>
    /\ list_tools_calls = <<>>
    /\ task = [t \in Tasks |-> NoFrame]
    /\ mcp_clients = <<>>
    /\ ops = 0
    /\ host = [t \in Tasks |-> NoHostFrame]

NextHost ==
    \E t \in Tasks :
       \/ RunExperiment(t)
       \/ EnsureNext(t)
       \/ EnsureReturn(t)
       \/ ToolsNext(t)
       \/ ToolsReturn(t)
       \/ HostCleanup(t)
       \/ CleanupNext(t)
       \/ CleanupReturn(t)
       \/ HostReturn(t)
       \/ SpawnDone(t)
       \/ SessionOpenDone(t)
       \/ InitializeDone(t)
       \/ SessionExitDone(t)
       \/ StdioExitDone(t)
       \/ ListToolsDone(t)

\* one ResearchHost used by tasks whose requests may overlap at the awaits
SpecHost == InitHost /\ [][NextHost]_vars

InitHostSeq ==
    /\ client = <<>>
    /\ ctx = <<>>
    /\ list_tools_calls = <<>>
    /\ task = [t \in Tasks |-> NoFrame]
    /\ mcp_clients = <<>>
    /\ ops = 0
    /\ host = [t \in Tasks |->
                 [NoHostFrame EXCEPT !.hpc = IF t = "t1" THEN "idle" ELSE "off"]]

\* one ResearchHost used by one task that awaits each call before the next,
\* as test_host() does
SpecHostSeq == InitHostSeq /\ [][NextHost]_vars

----------------------------------------------------------------------------
(* Properties *)

Kind(e) == ctx[e.ctx].kind

Unconnected(cl) ==
    /\ cl.session = None
    /\ cl.stdio_context = None
    /\ cl.session_context = None
    /\ ~cl.initialized
    /\ cl.tools_cache = NoCache

\* task t calls client method o in this step
Calls(t, o) == task[t].pc = "idle" /\ task'[t].pc # "idle" /\ task'[t].op = o

\* C1: in every teardown (disconnect() or the cleanup of a failed connect()) the
\* session release is attempted before the transport release, never after it and
\* never skipped, and whatever the session release raised, the transport release
\* is attempted too.
C1_TeardownOrder ==
    \A t \in Tasks :
       LET fr == task[t] IN
       /\ \A a, b \in 1..Len(fr.rel) :
             a < b => ~(Kind(fr.rel[a]) = "stdio" /\ Kind(fr.rel[b]) = "session")
       /\ fr.pc = "stdio_exit" => client[fr.cl].session_context = None
       /\ (fr.pc = "ret" /\ Len(fr.rel) >= 1 /\ Kind(fr.rel[1]) = "session")
             => /\ Len(fr.rel) = 2
                /\ Kind(fr.rel[2]) = "stdio"
                /\ fr.rel[2].o # "pending"

\* the cleanup of a failed connect() whose session release was cancelled has
\* gone on to release the transport
C1_Witness ==
    \E t \in Tasks :
       /\ task[t].pc = "ret"
       /\ task[t].op = "connect"
       /\ Len(task[t].rel) = 2
       /\ task[t].rel[1].o = "cancel"
       /\ Kind(task[t].rel[1]) = "session"
       /\ Kind(task[t].rel[2]) = "stdio"

\* C2: disconnect() never raises: whatever the client's state and whatever the
\* two releases raise (an error or a cancellation), it returns normally and
\* leaves no session, no transport, not initialized, no cached catalog.
C2_DisconnectNeverRaises ==
    \A t \in Tasks :
       (task[t].pc = "ret" /\ task[t].op = "disconnect")
          => /\ task[t].res = "ok"
             /\ Unconnected(client[task[t].cl])

\* a disconnect() has returned after its session release was cancelled and its
\* transport release raised an error
C2_Witness ==
    \E t \in Tasks :
       /\ task[t].pc = "ret"
       /\ task[t].op = "disconnect"
       /\ Len(task[t].rel) = 2
       /\ task[t].rel[1].o = "cancel"
       /\ task[t].rel[2].o = "error"

\* C3: when connect() raises its error (spawn, session open or handshake failed)
\* the client is back in the Unconnected state, and a connect() called on an
\* Unconnected client makes a fresh spawn attempt instead of returning at once.
C3_FailedConnectIsUnconnected ==
    /\ [](\A t \in Tasks :
            (task[t].pc = "ret" /\ task[t].op = "connect" /\ task[t].res = "error")
               => Unconnected(client[task[t].cl]))
    /\ [][\A t \in Tasks :
            (Calls(t, "connect") /\ task'[t].cl \in 1..Len(client)
                /\ Unconnected(client[task'[t].cl]))
               => /\ task'[t].pc = "spawn"
                  /\ Len(ctx') = Len(ctx) + 1
                  /\ ctx'[Len(ctx')].kind = "stdio"
                  /\ ctx'[Len(ctx')].st = "entering"]_vars

\* a second connect() is spawning a subprocess after the first one failed at the
\* spawn and released what it held
C3_Witness ==
    \E t \in Tasks :
       /\ task[t].pc = "spawn"
       /\ task[t].op = "connect"
       /\ Len(ctx) = 2
       /\ ctx[1].st = "failed"
       /\ ctx[1].exits = 1
       /\ ctx[1].owner = task[t].cl

\* C4: when connect() is cancelled at one of its awaits, teardown still runs:
\* every context the call had opened has its release attempted and the client
\* keeps no session or transport handle.
C4_CancelledConnectTearsDown ==
    \A t \in Tasks :
       (task[t].pc = "ret" /\ task[t].op = "connect" /\ task[t].res = "cancelled")
          => /\ client[task[t].cl].session = None
             /\ client[task[t].cl].session_context = None
             /\ client[task[t].cl].stdio_context = None
             /\ \A x \in 1..Len(ctx) :
                   (ctx[x].owner = task[t].cl /\ ctx[x].st = "open")
                      => ctx[x].exits >= 1

\* C5: connect() on a connected client returns at once: nothing is spawned, no
\* session opened, no handshake made, no field of the client changed.
C5_ConnectIdempotent ==
    [][\A t \in Tasks :
         (Calls(t, "connect") /\ task'[t].cl \in 1..Len(client)
             /\ client[task'[t].cl].initialized
             /\ client[task'[t].cl].session # None)
            => /\ task'[t].pc = "ret"
               /\ task'[t].res = "ok"
               /\ task'[t].aw = None
               /\ UNCHANGED <<client, ctx, list_tools_calls>>]_vars

\* a connect() has returned without awaiting anything on a client that is
\* initialized and has already fetched its catalog
C5_Witness ==
    \E t \in Tasks :
       /\ task[t].pc = "ret"
       /\ task[t].op = "connect"
       /\ task[t].res = "ok"
       /\ task[t].aw = None
       /\ client[task[t].cl].initialized
       /\ client[task[t].cl].tools_cache # NoCache

\* C6 as stated: a client sends at most one list_tools request in its lifetime.
C6_AtMostOneFetchPerLifetime ==
    \A c \in 1..Len(client) : list_tools_calls[c] <= 1

\* C6 amended: a list_tools request is sent only while the cache is absent; a
\* get_tools() on a ready client whose cache is present returns at once with
\* the cached catalog, sending nothing and changing nothing.
C6_FetchOnlyOnCacheMiss ==
    [][/\ \A c \in 1..Len(client) :
            list_tools_calls'[c] # list_tools_calls[c]
               => /\ client[c].tools_cache = NoCache
                  /\ list_tools_calls'[c] = list_tools_calls[c] + 1
       /\ \A t \in Tasks :
            (Calls(t, "get_tools") /\ task'[t].cl \in 1..Len(client)
                /\ client[task'[t].cl].initialized
                /\ client[task'[t].cl].session # None
                /\ client[task'[t].cl].tools_cache # NoCache)
               => /\ task'[t].pc = "ret"
                  /\ task'[t].res = "ok"
                  /\ UNCHANGED <<client, ctx, list_tools_calls>>]_vars

\* a get_tools() has returned the cached catalog without awaiting anything
C6_Witness ==
    \E t \in Tasks :
       /\ task[t].pc = "ret"
       /\ task[t].op = "get_tools"
       /\ task[t].res = "ok"
       /\ task[t].aw = None
       /\ list_tools_calls[task[t].cl] = 1
       /\ client[task[t].cl].tools_cache = Some(ConvertTools(Catalog("s1")).tools)

\* C7: get_tools() and call_tool() on a client that is not initialized fail with
\* the not-connected error, send nothing and change nothing.
C7_NotConnectedError ==
    [][\A t \in Tasks :
         ((Calls(t, "get_tools") \/ Calls(t, "call_tool"))
             /\ task'[t].cl \in 1..Len(client)
             /\ ~client[task'[t].cl].initialized)
            => /\ task'[t].pc = "ret"
               /\ task'[t].res = "notconnected"
               /\ task'[t].aw = None
               /\ UNCHANGED <<client, ctx, list_tools_calls>>]_vars

\* a get_tools() has failed as not connected on a client that fetched its
\* catalog earlier and was torn down since
C7_Witness ==
    \E t \in Tasks :
       /\ task[t].pc = "ret"
       /\ task[t].op = "get_tools"
       /\ task[t].res = "notconnected"
       /\ list_tools_calls[task[t].cl] >= 1
       /\ Unconnected(client[task[t].cl])
       /\ \A x \in 1..Len(ctx) : ctx[x].exits = 1

\* C8: disconnect() on an Unconnected client (never connected, or disconnected
\* before) attempts no release, raises nothing and leaves the client as it was.
C8_DisconnectIdempotent ==
    [][\A t \in Tasks :
         (Calls(t, "disconnect") /\ task'[t].cl \in 1..Len(client)
             /\ Unconnected(client[task'[t].cl]))
            => /\ task'[t].pc = "ret"
               /\ task'[t].res = "ok"
               /\ task'[t].rel = <<>>
               /\ UNCHANGED <<client, ctx, list_tools_calls>>]_vars

\* a disconnect() has returned without a release on a client whose session and
\* transport were opened and released before
C8_Witness ==
    \E t \in Tasks :
       /\ task[t].pc = "ret"
       /\ task[t].op = "disconnect"
       /\ task[t].res = "ok"
       /\ task[t].rel = <<>>
       /\ Len(ctx) = 2
       /\ \A x \in 1..Len(ctx) : ctx[x].st = "open" /\ ctx[x].exits = 1

\* C9: the host holds at most one live client per endpoint, also when two
\* requests for the same endpoint overlap.
C9_OneLiveClientPerEndpoint ==
    \A s \in Scripts :
       Cardinality({c \in 1..Len(client) :
                      client[c].server_script = s /\ client[c].initialized}) <= 1

\* C10: cleanup() returns without raising, with the registry empty, after the
\* disconnect of every client it found registered: each of them is Unconnected
\* and each of its contexts had its release attempted.
C10_CleanupDisconnectsAll ==
    \A t \in Tasks :
       host[t].hop = "cleanup"
          => /\ host[t].hpc # "raised"
             /\ host[t].hpc = "returned"
                  => /\ host[t].res = "ok"
                     /\ mcp_clients = <<>>
                     /\ Len(host[t].log) = Len(host[t].items)
                     /\ \A k \in 1..Len(host[t].items) :
                          LET c == host[t].items[k].client IN
                          /\ Unconnected(client[c])
                          /\ \A x \in 1..Len(ctx) :
                                ctx[x].owner = c => ctx[x].exits = 1

\* a cleanup() of two registered clients has returned although both releases of
\* the first client raised
C10_Witness ==
    \E t \in Tasks :
       /\ host[t].hop = "cleanup"
       /\ host[t].hpc = "returned"
       /\ Len(host[t].items) = 2
       /\ Len(host[t].log[1]) = 2
       /\ host[t].log[1][1].o = "error"
       /\ host[t].log[1][2].o = "cancel"
       /\ Len(host[t].log[2]) = 2

\* C11: when a request names several endpoints and the connect of one of them
\* fails, the host catches the failure for that endpoint: the request goes on to
\* the next endpoint instead of raising, and the clients already registered
\* stay registered and ready.
C11_ConnectFailureIsolated ==
    [][\A t \in Tasks :
         (/\ host[t].hpc = "ensure_wait"
          /\ task[t].pc = "ret"
          /\ task[t].res = "error"
          /\ Len(host[t].server_scripts) >= 2
          /\ mcp_clients # <<>>
          /\ host'[t] # host[t])
            => /\ host'[t].hpc = "ensure"
               /\ host'[t].i = host[t].i + 1
               /\ mcp_clients' = mcp_clients
               /\ \A k \in 1..Len(mcp_clients) :
                     /\ client'[mcp_clients[k].client].initialized
                     /\ client'[mcp_clients[k].client].session # None]_vars

\* C12: a get_tools() or call_tool() that fails on a ready client (its remote
\* request raised or was cancelled, or the conversion raised) tears nothing
\* down: the client still holds the same transport and session handles and is
\* still initialized, no release was attempted on either context, and a call
\* made on a ready client is sent over the session the client holds.
C12_FailedCallKeepsConnection ==
    /\ [](\A t \in Tasks :
            (/\ task[t].pc = "ret"
             /\ task[t].op \in {"get_tools", "call_tool"}
             /\ task[t].res \in {"error", "cancelled"})
               => LET cl == client[task[t].cl] IN
                  /\ cl.initialized
                  /\ cl.session = task[t].aw
                  /\ cl.session_context = task[t].aw
                  /\ cl.stdio_context # None
                  /\ ctx[cl.session_context].exits = 0
                  /\ ctx[cl.stdio_context].exits = 0
                  /\ task[t].rel = <<>>)
    /\ [][\A t \in Tasks :
            ((Calls(t, "get_tools") \/ Calls(t, "call_tool"))
                /\ task'[t].pc \in {"list_tools", "call_tool"})
               => /\ task'[t].aw = client[task'[t].cl].session
                  /\ task'[t].aw # None
                  /\ UNCHANGED <<client, ctx>>]_vars

\* a second list_tools request is in flight over the only session the client
\* ever opened: the first request failed and left the connection as it was
C12_Witness ==
    \E t \in Tasks :
       /\ task[t].pc = "list_tools"
       /\ list_tools_calls[task[t].cl] = 2
       /\ Len(ctx) = 2
       /\ task[t].aw = client[task[t].cl].session
       /\ client[task[t].cl].initialized
       /\ \A x \in 1..Len(ctx) : ctx[x].st = "open" /\ ctx[x].exits = 0

\* C13: a cached descriptor is immutable for the lifetime of the connection:
\* once get_tools() has filled the cache, no step of the client or of the host
\* changes its contents until the cache is cleared, so two reads made while it
\* is present return equal values.
C13_CachedCatalogImmutable ==
    [][\A c \in 1..Len(client) :
         (client[c].tools_cache # NoCache /\ client'[c].tools_cache # NoCache)
            => client'[c].tools_cache = client[c].tools_cache]_vars

\* the catalog of one endpoint as the merge delivers it
Tagged(tools, script) ==
    [k \in 1..Len(tools) |-> [tools[k] EXCEPT !.server = script]]

RECURSIVE Merged(_, _)
\* the catalogs of the first n endpoints of a request, one after the other
Merged(ss, n) ==
    IF n = 0 THEN <<>>
    ELSE Merged(ss, n - 1) \o
         Tagged(TheCache(client[Lookup(mcp_clients, ss[n])].tools_cache), ss[n])

\* C14: the merged catalog of a request is the catalogs of its endpoints in
\* request order, each in its own order, and every descriptor in it carries one
\* origin, the endpoint of the client it came from; so two descriptors of
\* different endpoints carry different origins, also when they share a name.
C14_MergedCatalogOrigins ==
    \A t \in Tasks :
       (host[t].hop = "run_experiment" /\ host[t].hpc \in {"tools", "returned"})
          => LET h == host[t] IN
             /\ h.all_tools = Merged(h.server_scripts, h.i - 1)
             /\ \A a \in 1..Len(h.all_tools) :
                   /\ h.all_tools[a].server \in Scripts
                   /\ InRegistry(mcp_clients, h.all_tools[a].server)
                   /\ client[Lookup(mcp_clients, h.all_tools[a].server)].server_script
                         = h.all_tools[a].server
                   /\ \E k \in 1..Len(TheCache(client[Lookup(mcp_clients,
                                          h.all_tools[a].server)].tools_cache)) :
                         TheCache(client[Lookup(mcp_clients,
                            h.all_tools[a].server)].tools_cache)[k] = h.all_tools[a]

\* a request for both endpoints has returned with four descriptors, the two
\* named get_status next to each other and tagged with different endpoints
C14_Witness ==
    \E t \in Tasks :
       /\ host[t].hop = "run_experiment"
       /\ host[t].hpc = "returned"
       /\ host[t].server_scripts = <<"s1", "s2">>
       /\ Len(host[t].all_tools) = 4
       /\ host[t].all_tools[2].name = "get_status"
       /\ host[t].all_tools[2].server = "s1"
       /\ host[t].all_tools[3].name = "get_status"
       /\ host[t].all_tools[3].server = "s2"

\* the catalog the client registered for an endpoint holds a tool of that name
Exports(script, tool_name) ==
    /\ InRegistry(mcp_clients, script)
    /\ \E j \in 1..Len(TheCache(client[Lookup(mcp_clients, script)].tools_cache)) :
          TheCache(client[Lookup(mcp_clients, script)].tools_cache)[j].name = tool_name

\* C15: the server recorded for a tool call is the first endpoint, in the order
\* of the request, whose catalog holds a tool of that name, and it is None
\* exactly when no endpoint of the request exports the name.
C15_FirstMatchResolution ==
    \A t \in Tasks :
       (host[t].hop = "run_experiment" /\ host[t].hpc = "returned")
          => LET ss == host[t].server_scripts IN
             \A r \in 1..Len(host[t].result) :
                LET call == host[t].result[r]
                    hits == {k \in 1..Len(ss) : Exports(ss[k], call.tool_name)}
                IN  /\ (call.server = "None") <=> (hits = {})
                    /\ \A k \in hits :
                          (\A j \in hits : k <= j) => call.server = ss[k]

\* a request naming s2 before s1 has recorded s2 for get_status, which both
\* endpoints export
C15_Witness ==
    \E t \in Tasks :
       /\ host[t].hop = "run_experiment"
       /\ host[t].hpc = "returned"
       /\ host[t].server_scripts = <<"s2", "s1">>
       /\ Exports("s1", "get_status")
       /\ host[t].result = <<[tool_name |-> "get_status", server |-> "s2"]>>

----------------------------------------------------------------------------
(* The driver test_host(): five requests inside "try", cleanup() in "finally" *)

\* the server_script arguments of the run_experiment() calls, in program order
TestRequests ==
    << <<"s1">>, <<"s1">>, <<"s1">>, <<"s2">>, <<"s1", "s2">> >>

\* "result = await host.run_experiment(...)": the next call of the try block
TestHostRun(t) ==
    /\ host[t].hpc = "try"
    /\ ops < Len(TestRequests)
    /\ ops' = ops + 1
    /\ host' = [host EXCEPT ![t] =
                  [NoHostFrame EXCEPT !.hpc = "ensure", !.hop = "run_experiment",
                                      !.server_scripts = TestRequests[ops + 1],
                                      !.i = 1]]
    /\ UNCHANGED <<client, ctx, list_tools_calls, task, mcp_clients>>

\* run_experiment() has returned its record: "host.print_result(result)"
TestHostNext(t) ==
    /\ host[t].hop = "run_experiment"
    /\ host[t].hpc = "returned"
    /\ host' = [host EXCEPT ![t] = [NoHostFrame EXCEPT !.hpc = "try"]]
    /\ UNCHANGED <<client, ctx, list_tools_calls, task, mcp_clients, ops>>

\* a driver that reaches cleanup() only at the end of the try block
TestHostFinallyMut(t) ==
    /\ \/ host[t].hpc = "try" /\ ops = Len(TestRequests)
          /\ host' = [host EXCEPT ![t] =
                        [NoHostFrame EXCEPT !.hpc = "cleanup", !.hop = "cleanup",
                                            !.items = mcp_clients, !.i = 1]]
       \/ host[t].hop = "run_experiment" /\ host[t].hpc = "raised"
          /\ host' = [host EXCEPT ![t].hpc = "exited"]
    /\ UNCHANGED <<client, ctx, list_tools_calls, task, mcp_clients, ops>>

\* "finally: if host: await host.cleanup()": entered when the try block ends
\* and when a run_experiment() raised an error or a CancelledError
TestHostFinally(t) ==
    /\ \/ host[t].hpc = "try" /\ ops = Len(TestRequests)
       \/ host[t].hop = "run_experiment" /\ host[t].hpc = "raised"
    /\ host' = [host EXCEPT ![t] =
                  [NoHostFrame EXCEPT !.hpc = "cleanup", !.hop = "cleanup",
                                      !.items = mcp_clients, !.i = 1]]
    /\ UNCHANGED <<client, ctx, list_tools_calls, task, mcp_clients, ops>>

\* cleanup() has returned or raised: test_host() is left
TestHostExit(t) ==
    /\ host[t].hop = "cleanup"
    /\ host[t].hpc \in {"returned", "raised"}
    /\ host' = [host EXCEPT ![t].hpc = "exited"]
    /\ UNCHANGED <<client, ctx, list_tools_calls, task, mcp_clients, ops>>

InitTestHost ==
    /\ client = <<>>
    /\ ctx = <<>>
    /\ list_tools_calls = <<>>
    /\ task = [t \in Tasks |-> NoFrame]
    /\ mcp_clients = <<>>
    /\ ops = 0
    /\ host = [t \in Tasks |->
                 [NoHostFrame EXCEPT !.hpc = IF t = "t1" THEN "try" ELSE "off"]]

NextTestHost ==
    \E t \in Tasks :
       \/ TestHostRun(t)
       \/ TestHostNext(t)
       \/ TestHostFinally(t)
       \/ TestHostExit(t)
       \/ EnsureNext(t)
       \/ EnsureReturn(t)
       \/ ToolsNext(t)
       \/ ToolsReturn(t)
       \/ CleanupNext(t)
       \/ CleanupReturn(t)
       \/ SpawnDone(t)
       \/ SessionOpenDone(t)
       \/ InitializeDone(t)
       \/ SessionExitDone(t)
       \/ StdioExitDone(t)
       \/ ListToolsDone(t)

\* test_host() under asyncio.run(): the event loop resumes the task whenever
\* the operation it awaits has ended, and every awaited operation ends (it
\* completes, raises or is cancelled)
SpecTestHost ==
    InitTestHost /\ [][NextTestHost]_vars /\ WF_vars(NextTestHost)

\* C16: however the requests of the driver end (all complete, one raises, one
\* is cancelled), cleanup() is eventually executed and test_host() is left with
\* the registry empty and no client still initialized: every client the host
\* connected has been disconnected.
C16_CleanupAlwaysRuns ==
    <>[](\A t \in Tasks :
           host[t].hpc # "off"
              => /\ host[t].hpc = "exited"
                 /\ host[t].hop = "cleanup"
                 /\ mcp_clients = <<>>
                 /\ \A c \in 1..Len(client) :
                       ~client[c].initialized /\ client[c].tools_cache = NoCache)

\* test_host() is left after its fourth request was cancelled while it connected
\* the second endpoint, and cleanup() has disconnected the first
C16_Witness ==
    \E t \in Tasks :
       /\ host[t].hpc = "exited"
       /\ host[t].hop = "cleanup"
       /\ ops = 4
       /\ Len(host[t].log) = 1
       /\ Len(host[t].log[1]) = 2
       /\ Len(client) = 2
       /\ client[2].stdio_context # None
       /\ Unconnected(client[1])

\* the mapping a schema stands for: its mapping form for a structured object,
\* itself for a plain mapping, the empty mapping for anything else
SchemaMapping(schema) ==
    CASE schema.kind = "model" -> schema.map
      [] schema.kind = "dict" -> schema.map
      [] OTHER -> EmptyMap

\* C17: schema normalization never fails the fetch: every cached descriptor
\* holds the mapping of the schema of the tool it was converted from (mapping
\* form of a structured object, the mapping itself, or the empty mapping for an
\* absent or unsupported schema), and a conversion stops only at a tool that is
\* broken for another reason than its schema.
C17_SchemaNormalization ==
    /\ \A s \in Scripts : \A raw \in ListToolsResults(s) :
          \A k \in 1..Len(raw) :
             raw[k].description # "raises"
                => ToolDict(raw[k]).inputSchema = SchemaMapping(raw[k].inputSchema)
    /\ \A c \in 1..Len(client) :
          client[c].tools_cache # NoCache
             => LET tools == TheCache(client[c].tools_cache) IN
                \E raw \in ListToolsResults(client[c].server_script) :
                   /\ Len(tools) <= Len(raw)
                   /\ \A k \in 1..Len(tools) :
                         /\ tools[k].name = raw[k].name
                         /\ tools[k].inputSchema = SchemaMapping(raw[k].inputSchema)
                   /\ Len(tools) < Len(raw)
                         => raw[Len(tools) + 1].description = "raises"

\* get_tools() has returned the catalog of s2, whose two schemas (an unsupported
\* object and an absent one) both became the empty mapping, while the cached
\* catalog of s1 holds the mappings of a structured object and of a plain dict
C17_Witness ==
    \E t \in Tasks :
       /\ task[t].pc = "ret"
       /\ task[t].op = "get_tools"
       /\ task[t].res = "ok"
       /\ client[task[t].cl].server_script = "s2"
       /\ Len(TheCache(client[task[t].cl].tools_cache)) = 2
       /\ \A k \in 1..2 :
             TheCache(client[task[t].cl].tools_cache)[k].inputSchema = EmptyMap
       /\ \E c \in 1..Len(client) :
             /\ client[c].server_script = "s1"
             /\ client[c].tools_cache # NoCache
             /\ Len(TheCache(client[c].tools_cache)) = 2
             /\ TheCache(client[c].tools_cache)[1].inputSchema = "m1"
             /\ TheCache(client[c].tools_cache)[2].inputSchema = "m2"

\* C18 as stated: in every state, initialized implies that a session handle is
\* held, and a held session handle implies that a transport handle is held.
C18_LifecycleSkipsNoState ==
    \A c \in 1..Len(client) :
       /\ client[c].initialized => client[c].session # None
       /\ client[c].session # None => client[c].stdio_context # None

\* a teardown of client c is suspended at one of its two releases
InTeardown(c) ==
    \E t \in Tasks :
       task[t].cl = c /\ task[t].pc \in {"session_exit", "stdio_exit"}

\* C18 amended: in every state a held session handle implies a held session
\* context and a held transport handle; initialized implies a held session
\* handle except while a teardown of the client is suspended at a release: the
\* teardown drops the handles before it awaits and clears the flag after.
C18_LifecycleOutsideTeardown ==
    \A c \in 1..Len(client) :
       /\ client[c].session # None
             => /\ client[c].session_context = client[c].session
                /\ client[c].stdio_context # None
       /\ client[c].session_context # None => client[c].stdio_context # None
       /\ (client[c].initialized /\ ~InTeardown(c)) => client[c].session # None

\* a disconnect() is suspended at the session release: the session handle is
\* dropped, the transport handle still held, the flag still set
C18_Witness ==
    \E t \in Tasks :
       /\ task[t].pc = "session_exit"
       /\ task[t].op = "disconnect"
       /\ client[task[t].cl].initialized
       /\ client[task[t].cl].session = None
       /\ client[task[t].cl].stdio_context # None

\* C19: a disconnect() leaves the cache absent and a cache is present only on an
\* initialized client, so a connect() that opened a new connection returns with
\* the cache absent and the first get_tools() after it sends a fresh list_tools
\* request over the new session; and a present cache is cleared only by a step
\* of a disconnect() of that client.
C19_CacheClearedOnlyByDisconnect ==
    /\ [](/\ \A c \in 1..Len(client) :
               client[c].tools_cache # NoCache => client[c].initialized
          /\ \A t \in Tasks :
               (task[t].pc = "ret" /\ task[t].res = "ok"
                   /\ (task[t].op = "disconnect"
                         \/ (task[t].op = "connect" /\ task[t].aw # None)))
                  => client[task[t].cl].tools_cache = NoCache)
    /\ [][/\ \A c \in 1..Len(client) :
               (client[c].tools_cache # NoCache /\ client'[c].tools_cache = NoCache)
                  => \E t \in Tasks :
                        task'[t].op = "disconnect" /\ task'[t].cl = c
          /\ \A t \in Tasks :
               (Calls(t, "get_tools") /\ task'[t].cl \in 1..Len(client)
                   /\ client[task'[t].cl].initialized
                   /\ client[task'[t].cl].session # None
                   /\ client[task'[t].cl].tools_cache = NoCache)
                  => /\ task'[t].pc = "list_tools"
                     /\ task'[t].aw = client[task'[t].cl].session
                     /\ list_tools_calls'[task'[t].cl]
                           = list_tools_calls[task'[t].cl] + 1]_vars

\* after a fetch, a disconnect() that released both contexts and a second
\* connect(), a get_tools() is fetching over the session of the second connection
C19_Witness ==
    \E t \in Tasks :
       /\ task[t].pc = "list_tools"
       /\ Len(ctx) = 4
       /\ task[t].aw = 4
       /\ client[task[t].cl].session = 4
       /\ list_tools_calls[task[t].cl] = 2
       /\ ctx[1].exits = 1
       /\ ctx[2].exits = 1
       /\ ctx[2].st = "open"
       /\ client[task[t].cl].tools_cache = NoCache

\* C20: a get_tools() that fails, in the remote request or while converting the
\* returned tools, leaves the cache absent, never an empty or partly filled
\* list; a fetch that succeeded leaves a list cached, the empty list if the
\* catalog was empty.
C20_FailedFetchLeavesCacheAbsent ==
    \A t \in Tasks :
       (task[t].pc = "ret" /\ task[t].op = "get_tools" /\ task[t].aw # None)
          => /\ task[t].res \in {"error", "cancelled"}
                   => client[task[t].cl].tools_cache = NoCache
             /\ task[t].res = "ok"
                   => client[task[t].cl].tools_cache # NoCache

\* C21: teardown attempts the release of a context only if the context was
\* opened: a context whose open failed (the spawn or the session open raised)
\* never has its release attempted.
C21_ReleaseOnlyOpenedContexts ==
    \A x \in 1..Len(ctx) : ctx[x].exits >= 1 => ctx[x].st = "open"

----------------------------------------------------------------------------
(* One MCPClient shared by two tasks: connect() calls run alone, disconnect() *)
(* calls may overlap each other at the awaits                                *)

InitShared ==
    /\ client = <<NewClient("s1")>>
    /\ ctx = <<>>
    /\ list_tools_calls = <<0>>
    /\ task = [t \in Tasks |-> NoFrame]
    /\ mcp_clients = <<>>
    /\ ops = 0
    /\ host = [t \in Tasks |-> [NoHostFrame EXCEPT !.hpc = "direct"]]

\* no task is inside a connect() on client c
NoConnectRunning(c) ==
    \A t \in Tasks : ~(task[t].op = "connect" /\ task[t].cl = c)

\* a caller starts connect() while no other call on the client is under way
SharedConnect(t) ==
    /\ \A u \in Tasks \ {t} : task[u] = NoFrame
    /\ DriverConnect(t)

\* a caller starts disconnect(), possibly while another disconnect() is
\* suspended at a release
SharedDisconnect(t) ==
    /\ \A c \in 1..Len(client) : NoConnectRunning(c)
    /\ DriverDisconnect(t)

NextShared ==
    \E t \in Tasks :
       \/ SharedConnect(t)
       \/ SharedDisconnect(t)
       \/ DriverReturn(t)
       \/ SpawnDone(t)
       \/ SessionOpenDone(t)
       \/ InitializeDone(t)
       \/ SessionExitDone(t)
       \/ StdioExitDone(t)

SpecShared == InitShared /\ [][NextShared]_vars

\* C22: over any connect() and disconnect() calls on one client, overlapping
\* disconnect() calls included, no context has its release attempted more than
\* once, and when a disconnect() has returned (no connect() of the client being
\* under way) every context the client opened has had its release attempted.
C22_ReleasedExactlyOnce ==
    /\ \A x \in 1..Len(ctx) : ctx[x].exits <= 1
    /\ \A t \in Tasks :
          (task[t].pc = "ret" /\ task[t].op = "disconnect"
              /\ NoConnectRunning(task[t].cl))
             => \A x \in 1..Len(ctx) :
                   (ctx[x].owner = task[t].cl /\ ctx[x].st = "open")
                      => ctx[x].exits = 1

====
